---- MODULE Spec2Model ----
(***************************************************************************)
(* Per-basic-block instruction reordering for a stack machine              *)
(* (move-compiler-v2, pipeline/instruction_reordering.rs).                 *)
(*                                                                         *)
(* Offsets are 0-based as in the source; block[o + 1] is the instruction   *)
(* at offset o.  Option<CodeOffset> is an integer, None being -1, so that  *)
(* the derived ordering None < Some(n) is the integer ordering.            *)
(***************************************************************************)
EXTENDS Integers, Sequences, FiniteSets, TLC

None == -1

\* Bounds of the explored inputs.
MaxCodeLen == 3
MaxRuns == 2

\* `new_block.len() > 128`
MAX_BLOCK_LEN == 128

\* Locals of the function under compilation: x, y, t hold values, r is
\* declared `&mut`, f is declared `&`.
x == 1
y == 2
t == 3
r == 4
f == 5
Tmps == {x, y, t, r, f}
MutRefLocals == {r}

----------------------------------------------------------------------------
(* Generic helpers *)

Range(s) == {s[i] : i \in DOMAIN s}

Min(a, b) == IF a < b THEN a ELSE b

\* Lookup in a BTreeMap modelled as a function with an explicit domain.
Has(map, k) == k \in DOMAIN map

Put(map, k, v) == (k :> v) @@ map

EmptyMap == [k \in {} |-> None]

LexLess(a, b) == a[1] < b[1] \/ (a[1] = b[1] /\ a[2] < b[2])

\* Iteration order of a BTreeMap / BTreeSet keyed by pairs.
RECURSIVE Sorted(_)
Sorted(S) ==
    IF S = {} THEN <<>>
    ELSE LET m == CHOOSE m \in S : \A s \in S \ {m} : LexLess(m, s)
         IN <<m>> \o Sorted(S \ {m})

Repeat(e, n) == [i \in 1..n |-> e]

\* `for i in lo..hi { st = Body(i, st) }`.  The range is split in two and
\* the first half is evaluated before the second, which keeps the
\* evaluation stack shallow for blocks of 128 instructions.
RECURSIVE ForRange(_, _, _, _)
ForRange(Body(_, _), lo, hi, st) ==
    IF hi <= lo THEN st
    ELSE IF hi = lo + 1 THEN Body(lo, st)
    ELSE LET mid == (lo + hi) \div 2
             half == ForRange(Body, lo, mid, st)
         IN IF half = half THEN ForRange(Body, mid, hi, half) ELSE st

----------------------------------------------------------------------------
(* Bytecode *)

Bytecode(kind, op, dsts, srcs, abort, opaque) ==
    [kind |-> kind, op |-> op, dests |-> dsts, srcs |-> srcs,
     can_abort |-> abort, opaque |-> opaque, attr |-> 0]

sources(instr) == instr.srcs

dests(instr) == instr.dests

get_attr_id(instr) == instr.attr

is_spec_only(instr) == instr.kind = "Prop"

can_abort(instr) == instr.can_abort

Xor == Bytecode("Call", "Xor", <<t>>, <<x, y>>, FALSE, FALSE)
Add == Bytecode("Call", "Add", <<y>>, <<t, y>>, TRUE, FALSE)
Assign == Bytecode("Assign", "None", <<x>>, <<y>>, FALSE, FALSE)
BorrowLoc == Bytecode("Call", "BorrowLoc", <<r>>, <<x>>, FALSE, FALSE)
FreezeRef == Bytecode("Call", "FreezeRef", <<f>>, <<r>>, FALSE, FALSE)
WriteRef == Bytecode("Call", "WriteRef", <<>>, <<r, t>>, FALSE, FALSE)
Jump == Bytecode("Jump", "None", <<>>, <<>>, FALSE, FALSE)
Abort == Bytecode("Abort", "None", <<>>, <<t>>, FALSE, FALSE)
Label == Bytecode("Label", "None", <<>>, <<>>, FALSE, FALSE)
Ret == Bytecode("Ret", "None", <<>>, <<x, y, t>>, FALSE, FALSE)
Nop == Bytecode("Nop", "None", <<>>, <<>>, FALSE, FALSE)
Prop == Bytecode("Prop", "None", <<>>, <<>>, FALSE, FALSE)
SpecBlock == Bytecode("SpecBlock", "None", <<>>, <<>>, FALSE, FALSE)
OpaqueCall == Bytecode("Call", "Function", <<t>>, <<x>>, TRUE, TRUE)

Prepare(attr_id, tmp) ==
    [kind |-> "Call", op |-> "Prepare", dests |-> <<>>, srcs |-> <<tmp>>,
     can_abort |-> FALSE, opaque |-> FALSE, attr |-> attr_id]

is_prepare(instr) == instr.kind = "Call" /\ instr.op = "Prepare"

----------------------------------------------------------------------------
(* ordered_edge_data_dependence_graph: the basic use-def graph *)

\* UseDefStep with `latest_write` updated before the sources are resolved.
UseDefStepWriteFirst(block, offset, st) ==
    LET instr == block[offset + 1]
        srcs == sources(instr)
        lw == [tmp \in Range(dests(instr)) |-> offset] @@ st.latest_write
        edges == [p \in 1..Len(srcs) |-> lw[srcs[p]]]
    IN [graph |-> IF srcs # <<>> THEN Put(st.graph, offset, edges) ELSE st.graph,
        uses |-> st.uses \cup {<<srcs[p], lw[srcs[p]], offset, p - 1>> :
                                  p \in 1..Len(srcs)},
        latest_write |-> lw]

UseDefStep(block, offset, st) ==
    LET instr == block[offset + 1]
        srcs == sources(instr)
        edges == [p \in 1..Len(srcs) |-> st.latest_write[srcs[p]]]
    IN [graph |-> IF srcs # <<>> THEN Put(st.graph, offset, edges) ELSE st.graph,
        uses |-> st.uses \cup {<<srcs[p], st.latest_write[srcs[p]], offset, p - 1>> :
                                  p \in 1..Len(srcs)},
        latest_write |-> [tmp \in Range(dests(instr)) |-> offset] @@ st.latest_write]

UseDefGraph(block) ==
    ForRange(LAMBDA offset, st : UseDefStep(block, offset, st), 0, Len(block),
             [graph |-> EmptyMap, uses |-> {},
              latest_write |-> [tmp \in Tmps |-> None]])

\* Keys and values of the `uses` map, which is held as a set of
\* <<tmp, def_offset, use_offset, pos>>.
UseKeys(us) == {<<u[1], u[2]>> : u \in us}

\* UsePairs with `uses` keyed by the temporary alone.
UsePairsByTmp(us, key) == {<<u[3], u[4]>> : u \in {v \in us : v[1] = key[1]}}

UsePairs(us, key) == {<<u[3], u[4]>> : u \in {v \in us : v[1] = key[1] /\ v[2] = key[2]}}

----------------------------------------------------------------------------
(* ordered_edge_data_dependence_graph: per-use preparation (first loop) *)

\* PushPrepare without the update of the slot of the use.
PushPrepareKeepSlot(block, st, usage_offset, pos, tmp, def, multi) ==
    LET prepare_offset == Len(block) + Len(st.prepare_instrs)
        prepare == Prepare(get_attr_id(block[usage_offset + 1]), tmp)
    IN [graph |-> st.graph,
        prepare_use_map |-> Put(st.prepare_use_map, prepare_offset,
                                <<usage_offset, pos, multi>>),
        prepare_instrs |-> Append(st.prepare_instrs, prepare),
        prepare_edges |-> IF def = None THEN st.prepare_edges
                          ELSE Put(st.prepare_edges, prepare_offset, def)]

\* Synthesizes one `Prepare` for slot `pos` of `usage_offset`.
PushPrepare(block, st, usage_offset, pos, tmp, def, multi) ==
    LET prepare_offset == Len(block) + Len(st.prepare_instrs)
        prepare == Prepare(get_attr_id(block[usage_offset + 1]), tmp)
    IN [graph |-> [st.graph EXCEPT ![usage_offset][pos + 1] = prepare_offset],
        prepare_use_map |-> Put(st.prepare_use_map, prepare_offset,
                                <<usage_offset, pos, multi>>),
        prepare_instrs |-> Append(st.prepare_instrs, prepare),
        prepare_edges |-> IF def = None THEN st.prepare_edges
                          ELSE Put(st.prepare_edges, prepare_offset, def)]

RECURSIVE PrepareSlots(_, _, _, _, _)
PrepareSlots(block, usage_offset, pos, without_last_len, st) ==
    IF pos >= without_last_len THEN st
    ELSE LET def == st.graph[usage_offset][pos + 1]
             tmp == sources(block[usage_offset + 1])[pos + 1]
             st2 == IF def = None
                    THEN PushPrepare(block, st, usage_offset, pos, tmp, None, FALSE)
                    ELSE IF block[def + 1].kind = "Assign"
                         THEN PushPrepare(block, st, usage_offset, pos, tmp, def, FALSE)
                         ELSE st
         IN PrepareSlots(block, usage_offset, pos + 1, without_last_len, st2)

\* PrepareUse without `.take(without_last_len)`.
PrepareUseAll(block, usage_offset, st) ==
    LET srcs == sources(block[usage_offset + 1])
    IN IF Len(srcs) < 2 \/ ~Has(st.graph, usage_offset) THEN st
       ELSE PrepareSlots(block, usage_offset, 0, Len(srcs), st)

PrepareUse(block, usage_offset, st) ==
    LET srcs == sources(block[usage_offset + 1])
    IN IF Len(srcs) < 2 \/ ~Has(st.graph, usage_offset) THEN st
       ELSE LET defs == st.graph[usage_offset]
                without_last_len == IF defs = <<>> THEN 0 ELSE Len(defs) - 1
            IN PrepareSlots(block, usage_offset, 0,
                            Min(without_last_len, Len(srcs)), st)

PrepareUses(block, st) ==
    ForRange(LAMBDA usage_offset, s : PrepareUse(block, usage_offset, s),
             0, Len(block), st)

----------------------------------------------------------------------------
(* ordered_edge_data_dependence_graph: multi-use preparation (second loop) *)

\* MultiUsePair without the test for a slot that is already prepared.
MultiUsePairAlways(block, tmp, use_offset, pos, st) ==
    LET srcs == sources(block[use_offset + 1])
    IN IF srcs = <<>> \/ pos = Len(srcs) - 1 THEN st
       ELSE IF ~Has(st.graph, use_offset) THEN st
       ELSE LET def == st.graph[use_offset][pos + 1]
            IN IF def = None THEN st
               ELSE PushPrepare(block, st, use_offset, pos, tmp, def, TRUE)

MultiUsePair(block, tmp, use_offset, pos, st) ==
    LET srcs == sources(block[use_offset + 1])
    IN IF srcs = <<>> \/ pos = Len(srcs) - 1 THEN st
       ELSE IF ~Has(st.graph, use_offset) THEN st
       ELSE LET def == st.graph[use_offset][pos + 1]
            IN IF def = None THEN st
               ELSE IF def >= Len(block)
                    THEN IF Has(st.prepare_use_map, def)
                         THEN [st EXCEPT !.prepare_use_map[def][3] = TRUE]
                         ELSE st
                    ELSE PushPrepare(block, st, use_offset, pos, tmp, def, TRUE)

RECURSIVE MultiUsePairs(_, _, _, _, _)
MultiUsePairs(block, tmp, use_pairs, i, st) ==
    IF i > Len(use_pairs) THEN st
    ELSE MultiUsePairs(block, tmp, use_pairs, i + 1,
                       MultiUsePair(block, tmp, use_pairs[i][1], use_pairs[i][2], st))

RECURSIVE MultiUses(_, _, _, _, _)
MultiUses(block, us, keys, i, st) ==
    IF i > Len(keys) THEN st
    ELSE LET use_pairs == UsePairs(us, keys[i])
             st2 == IF Cardinality(use_pairs) > 1
                    THEN MultiUsePairs(block, keys[i][1], Sorted(use_pairs), 1, st)
                    ELSE st
         IN MultiUses(block, us, keys, i + 1, st2)

\* `block.extend(prepare_instrs)` and the loop over `prepare_edges`.
RECURSIVE AddPrepareEdges(_, _, _)
AddPrepareEdges(g, prepare_edges, todo) ==
    IF todo = {} THEN g
    ELSE LET p == CHOOSE p \in todo : \A q \in todo : p <= q
             old == IF Has(g, p) THEN g[p] ELSE <<>>
         IN AddPrepareEdges(Put(g, p, Append(old, prepare_edges[p])),
                            prepare_edges, todo \ {p})

----------------------------------------------------------------------------
(* ordered_edge_data_dependence_graph *)

\* ordered_edge_data_dependence_graph without the loop over `uses`.
DependenceGraphWithoutMultiUse(block) ==
    LET ud == UseDefGraph(block)
        per_use == PrepareUses(block,
                       [graph |-> ud.graph, prepare_use_map |-> EmptyMap,
                        prepare_instrs |-> <<>>, prepare_edges |-> EmptyMap])
    IN [uses |-> ud.uses,
        basic_graph |-> ud.graph,
        block |-> block \o per_use.prepare_instrs,
        graph |-> AddPrepareEdges(per_use.graph, per_use.prepare_edges,
                                  DOMAIN per_use.prepare_edges),
        prepare_use_map |-> per_use.prepare_use_map]

ordered_edge_data_dependence_graph(block) ==
    LET ud == UseDefGraph(block)
        per_use == PrepareUses(block,
                       [graph |-> ud.graph, prepare_use_map |-> EmptyMap,
                        prepare_instrs |-> <<>>, prepare_edges |-> EmptyMap])
        multi == MultiUses(block, ud.uses, Sorted(UseKeys(ud.uses)), 1, per_use)
    IN [uses |-> ud.uses,
        basic_graph |-> ud.graph,
        block |-> block \o multi.prepare_instrs,
        graph |-> AddPrepareEdges(multi.graph, multi.prepare_edges,
                                  DOMAIN multi.prepare_edges),
        prepare_use_map |-> multi.prepare_use_map]

----------------------------------------------------------------------------
(* is_relatively_non_reorderable *)

is_relatively_non_reorderable(instr) ==
    \/ instr.kind \in {"Ret", "Branch", "Jump", "Label", "Abort"}
    \/ /\ instr.kind = "Call"
       /\ can_abort(instr) \/ instr.op \in {"WriteRef", "ReadRef", "FreezeRef", "Drop"}

----------------------------------------------------------------------------
(* DependenceConstraints: edges are a set of pairs <<from, to>> *)

\* The prefix of the block walked by add_false_dependencies: the loop
\* breaks at the first `Prepare`.
FalsePrefixLen(block) ==
    LET prepares == {o \in 0..Len(block) - 1 : is_prepare(block[o + 1])}
    IN IF prepares = {} THEN Len(block)
       ELSE CHOOSE o \in prepares : \A q \in prepares : o <= q

FalseStep(block, offset, st) ==
    LET instr == block[offset + 1]
        srcs == Range(sources(instr))
        dsts == Range(dests(instr))
        rb1 == [tmp \in srcs |-> st.reads_before[tmp] \cup {offset}]
                   @@ st.reads_before
        war == {<<node, offset>> :
                   node \in UNION {rb1[tmp] : tmp \in dsts} \ {offset}}
        waw == {<<st.latest_write[tmp], offset>> :
                   tmp \in {d \in dsts : st.latest_write[d] # None
                                         /\ st.latest_write[d] # offset}}
    IN [reads_before |-> [tmp \in dsts |-> {}] @@ rb1,
        latest_write |-> [tmp \in dsts |-> offset] @@ st.latest_write,
        edges |-> st.edges \cup war \cup waw]

add_false_dependencies(es, block) ==
    ForRange(LAMBDA offset, st : FalseStep(block, offset, st),
             0, FalsePrefixLen(block),
             [reads_before |-> [tmp \in Tmps |-> {}],
              latest_write |-> [tmp \in Tmps |-> None],
              edges |-> es]).edges

\* add_true_dependencies with the edges from the use to its definition.
add_true_dependencies_from_use(es, g) ==
    es \cup UNION {{<<use_offset, g[use_offset][p]>> :
                        p \in {q \in DOMAIN g[use_offset] : g[use_offset][q] # None}} :
                    use_offset \in DOMAIN g}

add_true_dependencies(es, g) ==
    es \cup UNION {{<<g[use_offset][p], use_offset>> :
                        p \in {q \in DOMAIN g[use_offset] : g[use_offset][q] # None}} :
                    use_offset \in DOMAIN g}

is_ref_arg_instr(instr) ==
    \/ instr.kind = "Call" /\ instr.op = "FreezeRef"
    \/ instr.kind = "Call" /\ instr.op = "BorrowLoc"
       /\ dests(instr)[1] \in MutRefLocals

\* The sources of one instruction, taken in order.
RECURSIVE RefArgSrcs(_, _, _, _, _)
RefArgSrcs(instr, offset, i, is_ref_arg, st) ==
    IF i > Len(sources(instr)) THEN st
    ELSE LET src == sources(instr)[i]
             st2 ==
               IF is_ref_arg
               THEN [reads |-> [st.reads EXCEPT ![src] = {}],
                     ref_args |-> [st.ref_args EXCEPT ![src] = offset],
                     edges |-> st.edges
                         \cup {<<prev_read, offset>> : prev_read \in st.reads[src]}
                         \cup (IF st.ref_args[src] # None
                               THEN {<<st.ref_args[src], offset>>} ELSE {})]
               ELSE [reads |-> [st.reads EXCEPT ![src] = @ \cup {offset}],
                     ref_args |-> st.ref_args,
                     edges |-> st.edges
                         \cup (IF st.ref_args[src] # None
                               THEN {<<st.ref_args[src], offset>>} ELSE {})]
         IN RefArgSrcs(instr, offset, i + 1, is_ref_arg, st2)

add_ref_arg_dependencies(es, block) ==
    ForRange(LAMBDA offset, st :
                 RefArgSrcs(block[offset + 1], offset, 1,
                            is_ref_arg_instr(block[offset + 1]), st),
             0, Len(block),
             [reads |-> [tmp \in Tmps |-> {}],
              ref_args |-> [tmp \in Tmps |-> None],
              edges |-> es]).edges

\* ChainStep with the edge from the current instruction to the previous one.
ChainStepBackward(block, offset, st) ==
    IF is_relatively_non_reorderable(block[offset + 1])
    THEN [prev_offset |-> offset,
          edges |-> IF st.prev_offset # None
                    THEN st.edges \cup {<<offset, st.prev_offset>>}
                    ELSE st.edges]
    ELSE st

ChainStep(block, offset, st) ==
    IF is_relatively_non_reorderable(block[offset + 1])
    THEN [prev_offset |-> offset,
          edges |-> IF st.prev_offset # None
                    THEN st.edges \cup {<<st.prev_offset, offset>>}
                    ELSE st.edges]
    ELSE st

add_relatively_non_reorderable_dependencies(es, block) ==
    ForRange(LAMBDA offset, st : ChainStep(block, offset, st), 0, Len(block),
             [prev_offset |-> None, edges |-> es]).edges

\* Floyd-Warshall: the two inner loops for one k of the outermost loop.
ClosureStep(k, es) ==
    LET into == {e[1] : e \in {d \in es : d[2] = k}}
        from == {e[2] : e \in {d \in es : d[1] = k}}
    IN es \cup (into \X from)

\* make_transitively_closed with one pass that joins pairs of the given edges.
make_closed_one_pass(es, num_nodes) ==
    es \cup {e \in (0..num_nodes - 1) \X (0..num_nodes - 1) :
                \E k \in 0..num_nodes - 1 : <<e[1], k>> \in es /\ <<k, e[2]>> \in es}

make_transitively_closed(es, num_nodes) ==
    ForRange(LAMBDA k, st : ClosureStep(k, st), 0, num_nodes, es)

----------------------------------------------------------------------------
(* The chain of add_* calls *)

\* ConstraintEdges without add_true_dependencies.
ConstraintEdgesWithoutTrue(block, g) ==
    add_relatively_non_reorderable_dependencies(
        add_ref_arg_dependencies(add_false_dependencies({}, block), block),
        block)

\* The pre-closure edges of the chain of add_* calls.
ConstraintEdges(block, g) ==
    add_relatively_non_reorderable_dependencies(
        add_ref_arg_dependencies(
            add_true_dependencies(add_false_dependencies({}, block), g),
            block),
        block)

----
(* dfs_post_order_numbering and dfs_recurse *)

\* NumberNode with numbers that count down from the length of the block.
NumberNodeDescending(node, st) ==
    [st EXCEPT !.ordering[node + 1] = Append(@, Len(st.ordering) - 1 - st.num),
               !.num = @ + 1]

\* `ordering[node].push(Some(*num)); *num += 1;`
NumberNode(node, st) ==
    [st EXCEPT !.ordering[node + 1] = Append(@, st.num),
               !.num = @ + 1]

RECURSIVE dfs_recurse(_, _, _), DfsDependents(_, _, _, _)
dfs_recurse(node, g, st) ==
    IF node \in st.visited THEN st
    ELSE LET st1 == [st EXCEPT !.visited = @ \cup {node}]
             dependents == IF Has(g, node)
                           THEN SelectSeq(g[node], LAMBDA d : d # None)
                           ELSE <<>>
             st2 == DfsDependents(dependents, 1, g, st1)
         IN NumberNode(node, st2)

DfsDependents(dependents, i, g, st) ==
    IF i > Len(dependents) THEN st
    ELSE DfsDependents(dependents, i + 1, g, dfs_recurse(dependents[i], g, st))

\* DfsRun without the padding of the instructions the run did not visit.
DfsRunUnpadded(block, g, offset, st) ==
    LET instr == block[offset + 1]
    IN IF /\ offset \notin st.visited_by_any_run
          /\ is_relatively_non_reorderable(instr)
          /\ sources(instr) # <<>>
       THEN LET run_st == dfs_recurse(offset, g,
                              [visited |-> {},
                               ordering |-> st.true_dependencies,
                               num |-> 0])
            IN [true_dependencies |-> run_st.ordering,
                visited_by_any_run |-> st.visited_by_any_run \cup run_st.visited]
       ELSE st

\* One iteration of the loop over the block, which may start a run.
DfsRun(block, g, offset, st) ==
    LET instr == block[offset + 1]
    IN IF /\ offset \notin st.visited_by_any_run
          /\ is_relatively_non_reorderable(instr)
          /\ sources(instr) # <<>>
       THEN LET run_st == dfs_recurse(offset, g,
                              [visited |-> {},
                               ordering |-> st.true_dependencies,
                               num |-> 0])
                max_len == Len(run_st.ordering[offset + 1])
            IN [true_dependencies |->
                    [i \in DOMAIN run_st.ordering |->
                        IF Len(run_st.ordering[i]) < max_len
                        THEN Append(run_st.ordering[i], None)
                        ELSE run_st.ordering[i]],
                visited_by_any_run |-> st.visited_by_any_run \cup run_st.visited]
       ELSE st

\* dfs_post_order_numbering with the block walked from its first instruction.
dfs_post_order_numbering_forward(block, g) ==
    ForRange(LAMBDA i, st : DfsRun(block, g, i, st),
             0, Len(block),
             [true_dependencies |-> [i \in 1..Len(block) |-> <<>>],
              visited_by_any_run |-> {}]).true_dependencies

\* `block.iter().enumerate().rev()`
dfs_post_order_numbering(block, g) ==
    ForRange(LAMBDA i, st : DfsRun(block, g, Len(block) - 1 - i, st),
             0, Len(block),
             [true_dependencies |-> [i \in 1..Len(block) |-> <<>>],
              visited_by_any_run |-> {}]).true_dependencies

----------------------------------------------------------------------------
(* OrderingConstraints::get_ordered_instr_indices *)

IntCmp(a, b) == IF a < b THEN "Less" ELSE IF a > b THEN "Greater" ELSE "Equal"

\* Ord of Vec<Option<CodeOffset>>: lexicographic, a proper prefix is less.
VecCmp(va, vb) ==
    LET n == Min(Len(va), Len(vb))
        diff == {i \in 1..n : va[i] # vb[i]}
    IN IF diff = {} THEN IntCmp(Len(va), Len(vb))
       ELSE LET i == CHOOSE i \in diff : \A j \in diff : i <= j
            IN IntCmp(va[i], vb[i])

\* compare with `.then(b.cmp(a))` as its last step.
compare_offset_reversed(a, b, deps, nums) ==
    IF <<a, b>> \in deps THEN "Less"
    ELSE IF <<b, a>> \in deps THEN "Greater"
    ELSE LET va == nums[a + 1]
             vb == nums[b + 1]
             both == {i \in 1..Min(Len(va), Len(vb)) :
                         va[i] # None /\ vb[i] # None}
         IN IF both # {}
            THEN LET i == CHOOSE i \in both : \A j \in both : i <= j
                 IN IntCmp(va[i], vb[i])
            ELSE LET c == VecCmp(va, vb)
                 IN IF c # "Equal" THEN c ELSE IntCmp(b, a)

\* The closure passed to sort_by.
compare(a, b, deps, nums) ==
    IF <<a, b>> \in deps THEN "Less"
    ELSE IF <<b, a>> \in deps THEN "Greater"
    ELSE LET va == nums[a + 1]
             vb == nums[b + 1]
             both == {i \in 1..Min(Len(va), Len(vb)) :
                         va[i] # None /\ vb[i] # None}
         IN IF both # {}
            THEN LET i == CHOOSE i \in both : \A j \in both : i <= j
                 IN IntCmp(va[i], vb[i])
            ELSE LET c == VecCmp(va, vb)
                 IN IF c # "Equal" THEN c ELSE IntCmp(a, b)

is_less(a, b, deps, nums) == compare(a, b, deps, nums) = "Less"

\* slice::sort_by on at most 20 elements is an insertion sort.  Depending on
\* the toolchain it inserts each element into the sorted prefix on its left
\* (insertion_sort_shift_left) or each element, from the right end, into
\* the sorted suffix on its right (insert_head).
SortImpls == {"shift_left", "shift_right"}

RECURSIVE SiftLeft(_, _, _, _, _)
SiftLeft(v, tmp, j, deps, nums) ==
    IF j > 1 /\ is_less(tmp, v[j - 1], deps, nums)
    THEN SiftLeft(v, tmp, j - 1, deps, nums)
    ELSE j

\* insert_tail: v[i] moves left past the elements it is less than.
InsertTail(v, i, deps, nums) ==
    LET j == SiftLeft(v, v[i], i, deps, nums)
    IN SubSeq(v, 1, j - 1) \o <<v[i]>> \o SubSeq(v, j, i - 1)
           \o SubSeq(v, i + 1, Len(v))

insertion_sort_shift_left(v, deps, nums) ==
    ForRange(LAMBDA i, w : InsertTail(w, i + 1, deps, nums), 1, Len(v), v)

RECURSIVE SiftRight(_, _, _, _, _)
SiftRight(v, tmp, j, deps, nums) ==
    IF j < Len(v) /\ is_less(v[j + 1], tmp, deps, nums)
    THEN SiftRight(v, tmp, j + 1, deps, nums)
    ELSE j

\* insert_head: v[i] moves right past the elements that are less than it.
InsertHead(v, i, deps, nums) ==
    LET j == SiftRight(v, v[i], i, deps, nums)
    IN SubSeq(v, 1, i - 1) \o SubSeq(v, i + 1, j) \o <<v[i]>>
           \o SubSeq(v, j + 1, Len(v))

\* `for i in (0..len - 1).rev() { insert_head(&mut v[i..]) }`
insertion_sort_shift_right(v, deps, nums) ==
    ForRange(LAMBDA k, w : InsertHead(w, Len(v) - 1 - k, deps, nums),
             0, Len(v) - 1, v)

sort_by(impl, v, deps, nums) ==
    IF Len(v) < 2 THEN v
    ELSE IF impl = "shift_left" THEN insertion_sort_shift_left(v, deps, nums)
    ELSE insertion_sort_shift_right(v, deps, nums)

get_ordered_instr_indices(impl, deps, nums) ==
    sort_by(impl, [i \in 1..Len(nums) |-> i - 1], deps, nums)

\* IndexRemapping with `index_remapping[i] = reordered_index`.
IndexRemappingForward(reordered) ==
    [i \in 1..Len(reordered) |-> reordered[i]]

\* index_remapping[reordered_index] = i
IndexRemapping(reordered) ==
    [old \in 1..Len(reordered) |->
        (CHOOSE i \in 1..Len(reordered) : reordered[i] = old - 1) - 1]

\* remap_and_convert_to_annotation without the entries whose dependence
\* set is empty.
remap_and_convert_nonempty(deps, nums, remap) ==
    [n \in {remap[o] : o \in {q \in 1..Len(nums) : \E e \in deps : e[1] = q - 1}} |->
        LET o == CHOOSE o \in 1..Len(nums) : remap[o] = n
        IN [dependencies |-> {e[2] : e \in {d \in deps : d[1] = o - 1}},
            dfs_numberings |-> nums[o]]]

remap_and_convert_to_annotation(deps, nums, remap) ==
    [n \in {remap[o] : o \in 1..Len(nums)} |->
        LET o == CHOOSE o \in 1..Len(nums) : remap[o] = n
        IN [dependencies |-> {e[2] : e \in {d \in deps : d[1] = o - 1}},
            dfs_numberings |-> nums[o]]]

----------------------------------------------------------------------------
(* Inputs *)

Instrs == {Xor, Add, Assign, BorrowLoc, FreezeRef, WriteRef,
           Jump, Abort, Label, Ret, Prop, SpecBlock, OpaqueCall}

\* Attribute ids are those of the instructions' positions in the function.
WithAttrs(s) == [i \in 1..Len(s) |-> [s[i] EXCEPT !.attr = i]]

ShortCodes == {WithAttrs(s) : s \in UNION {[1..n -> Instrs] : n \in 1..MaxCodeLen}}

\* Straight-line blocks at the size limit.
LongCodes == {WithAttrs(Repeat(Nop, MAX_BLOCK_LEN)),
              WithAttrs(Repeat(Nop, MAX_BLOCK_LEN + 1)),
              WithAttrs(Repeat(Xor, MAX_BLOCK_LEN + 1))}

\* Offsets at which the forward control-flow graph starts a block: after a
\* branching instruction, and at a label that a branch of the code targets.
BlockStarts(c) ==
    {o \in 1..Len(c) - 1 :
        \/ c[o].kind \in {"Jump", "Branch", "Abort", "Ret"}
        \/ /\ c[o + 1].kind = "Label"
           /\ \E i \in DOMAIN c : c[i].kind \in {"Jump", "Branch"}}

\* Block ranges (lower, upper) of the code cut at the offsets `cuts`.
RangesOfCuts(n, cuts) ==
    LET starts == {0} \cup cuts
        upper(lo) == IF \E c \in starts : c > lo
                     THEN (CHOOSE c \in starts : c > lo
                              /\ \A d \in starts : d > lo => c <= d) - 1
                     ELSE n - 1
        nth(S, k) == CHOOSE e \in S : Cardinality({d \in S : d < e}) = k - 1
    IN [k \in 1..Cardinality(starts) |-> <<nth(starts, k), upper(nth(starts, k))>>]

\* cfg.blocks() mapped to instr_offset_bounds, sorted by lower offset.
BlockRanges(c) == RangesOfCuts(Len(c), BlockStarts(c))

\* Slice with an exclusive upper bound.
SliceExclusive(c, lower, upper) == [i \in 1..(upper - lower) |-> c[lower + i]]

\* `code[lower..=upper].to_vec()`
Slice(c, lower, upper) == [i \in 1..(upper - lower + 1) |-> c[lower + i]]

LiveVarAnnotations == [LiveVarAnnotation |-> "live_vars"]

\* slice::sort_by is an insertion sort up to this length.
MAX_INSERTION == 20

\* The most `Prepare`s a run can append to a block: one per non-last source.
MaxGrowth(block) ==
    ForRange(LAMBDA o, n : IF Len(sources(block[o + 1])) < 2 THEN n
                           ELSE n + Len(sources(block[o + 1])) - 1,
             0, Len(block), 0)

----------------------------------------------------------------------------
(* State *)

VARIABLES
    pc,                    \* position in process / compute_reordered_instructions
    run,                   \* how many times the processor has been applied
    native,                \* func_env.is_native()
    code,                  \* data.code
    annotations,           \* data.annotations
    ranges,                \* block_ranges
    in_code,               \* data.code when process was entered
    in_annotations,        \* data.annotations when process was entered
    blk,                   \* index of the block range being processed
    new_block,             \* optimize_block_for_stack_machine: new_block
    block_len,             \* length of the block before `Prepare`s are appended
    uses,
    basic_graph,           \* the use-def graph before `Prepare` synthesis
    graph,
    prepare_use_map,
    edges,                 \* DependenceConstraints.edges before closure
    dependencies,          \* ... after make_transitively_closed
    dfs_numberings,
    reordered_indices,
    index_remapping,
    reordered,             \* the ReorderedBlock returned for the block
    skipped,               \* whether the block took the early return
    new_code,
    ordering_annotation,
    touch_use_annotation,
    new_ranges             \* ranges of the blocks within new_code

fnVars == <<run, native, code, annotations, ranges, in_code, in_annotations>>

outVars == <<new_code, ordering_annotation, touch_use_annotation, new_ranges>>

synthVars == <<new_block, block_len, uses, basic_graph, graph, prepare_use_map>>

orderVars == <<edges, dependencies, dfs_numberings, reordered_indices,
               index_remapping, reordered>>

vars == <<pc, fnVars, outVars, blk, skipped, synthVars, orderVars>>

EmptyBlock == [block |-> <<>>, ordering |-> EmptyMap, touch_use |-> EmptyMap]

Init ==
    /\ pc = "process"
    /\ run = 1
    /\ native \in BOOLEAN
    /\ code \in IF native THEN {<<>>} ELSE ShortCodes \cup LongCodes
    /\ ranges = IF native THEN <<>> ELSE BlockRanges(code)
    /\ annotations = LiveVarAnnotations
    /\ in_code = code
    /\ in_annotations = annotations
    /\ blk = 1
    /\ skipped = FALSE
    /\ new_block = <<>>
    /\ block_len = 0
    /\ uses = {}
    /\ basic_graph = EmptyMap
    /\ graph = EmptyMap
    /\ prepare_use_map = EmptyMap
    /\ edges = {}
    /\ dependencies = {}
    /\ dfs_numberings = <<>>
    /\ reordered_indices = <<>>
    /\ index_remapping = <<>>
    /\ reordered = EmptyBlock
    /\ new_code = <<>>
    /\ ordering_annotation = EmptyMap
    /\ touch_use_annotation = EmptyMap
    /\ new_ranges = <<>>

----------------------------------------------------------------------------
(* InstructionReorderingProcessor::process and compute_reordered_instructions *)

\* `if func_env.is_native() { return data; }`
ProcessNative ==
    /\ pc = "process"
    /\ native
    /\ pc' = "done"
    /\ UNCHANGED <<fnVars, outVars, blk, skipped, synthVars, orderVars>>

\* ProcessSpecOnly with the annotations cleared before the code is looked at.
ProcessSpecOnlyCleared ==
    /\ pc = "process"
    /\ ~native
    /\ \E i \in DOMAIN code : is_spec_only(code[i])
    /\ annotations' = EmptyMap
    /\ pc' = "done"
    /\ UNCHANGED <<run, native, code, ranges, in_code, in_annotations, outVars,
                   blk, skipped, synthVars, orderVars>>

\* compute_reordered_instructions returns None: data is returned as it is.
ProcessSpecOnly ==
    /\ pc = "process"
    /\ ~native
    /\ \E i \in DOMAIN code : is_spec_only(code[i])
    /\ pc' = "done"
    /\ UNCHANGED <<fnVars, outVars, blk, skipped, synthVars, orderVars>>

\* compute_reordered_instructions up to the loop over block_ranges.
ComputeBegin ==
    /\ pc = "process"
    /\ ~native
    /\ ~\E i \in DOMAIN code : is_spec_only(code[i])
    /\ "LiveVarAnnotation" \in DOMAIN annotations
    /\ pc' = "block"
    /\ blk' = 1
    /\ UNCHANGED <<fnVars, outVars, skipped, synthVars, orderVars>>

----------------------------------------------------------------------------
(* optimize_block_for_stack_machine *)

CurrentBlock == Slice(code, ranges[blk][1], ranges[blk][2])

\* SkipBlock with the length test off by one.
SkipBlockAtLimit(block) ==
    \/ Len(block) >= MAX_BLOCK_LEN
    \/ \E i \in DOMAIN block :
          \/ is_spec_only(block[i])
          \/ block[i].kind = "SpecBlock"
          \/ block[i].kind = "Call" /\ block[i].opaque

SkipBlock(block) ==
    \/ Len(block) > MAX_BLOCK_LEN
    \/ \E i \in DOMAIN block :
          \/ is_spec_only(block[i])
          \/ block[i].kind = "SpecBlock"
          \/ block[i].kind = "Call" /\ block[i].opaque

\* The early return: no reordering or insertion of `Prepare`.
OptimizeSkip ==
    /\ pc = "block"
    /\ SkipBlock(CurrentBlock)
    /\ new_block' = CurrentBlock
    /\ block_len' = Len(CurrentBlock)
    /\ skipped' = TRUE
    /\ reordered' = [block |-> CurrentBlock, ordering |-> EmptyMap,
                     touch_use |-> EmptyMap]
    /\ pc' = "concat"
    /\ UNCHANGED <<fnVars, outVars, blk, uses, basic_graph, graph,
                   prepare_use_map, edges, dependencies, dfs_numberings,
                   reordered_indices, index_remapping>>

\* The block is not skipped: `Prepare` synthesis, the dependence constraints
\* and the DFS numbering.
OptimizeBlock ==
    /\ pc = "block"
    /\ ~SkipBlock(CurrentBlock)
    /\ \E res \in {ordered_edge_data_dependence_graph(CurrentBlock)} :
          /\ new_block' = res.block
          /\ uses' = res.uses
          /\ basic_graph' = res.basic_graph
          /\ graph' = res.graph
          /\ prepare_use_map' = res.prepare_use_map
    /\ edges' = ConstraintEdges(new_block', graph')
    /\ dependencies' = make_transitively_closed(edges', Len(new_block'))
    /\ dfs_numberings' = dfs_post_order_numbering(new_block', graph')
    /\ block_len' = Len(CurrentBlock)
    /\ pc' = "sort"
    /\ UNCHANGED <<fnVars, outVars, blk, skipped, reordered_indices,
                   index_remapping, reordered>>

\* The rest of optimize_block_for_stack_machine: the sort and the
\* ReorderedBlock.
ReorderBlock ==
    /\ pc = "sort"
    /\ \E impl \in SortImpls :
          reordered_indices' =
              get_ordered_instr_indices(impl, dependencies, dfs_numberings)
    /\ index_remapping' = IndexRemapping(reordered_indices')
    /\ reordered' =
         [block |-> [i \in 1..Len(reordered_indices') |->
                        new_block[reordered_indices'[i] + 1]],
          ordering |-> remap_and_convert_to_annotation(
                           dependencies, dfs_numberings, index_remapping'),
          touch_use |->
              [k \in {index_remapping'[p + 1] : p \in DOMAIN prepare_use_map} |->
                  LET p == CHOOSE p \in DOMAIN prepare_use_map :
                               index_remapping'[p + 1] = k
                      v == prepare_use_map[p]
                  IN <<index_remapping'[v[1] + 1], v[2], v[3]>>]]
    /\ pc' = "concat"
    /\ UNCHANGED <<fnVars, outVars, blk, skipped, synthVars, edges,
                   dependencies, dfs_numberings>>

\* RebaseTouchUse with the use offset left block-local.
RebaseTouchUseKeysOnly(touch_use, new_lower) ==
    [k \in {new_lower + o : o \in DOMAIN touch_use} |-> touch_use[k - new_lower]]

\* The entries of a block's PrepareUseAnnotation at their offsets in new_code.
RebaseTouchUse(touch_use, new_lower) ==
    [k \in {new_lower + o : o \in DOMAIN touch_use} |->
        LET v == touch_use[k - new_lower]
        IN <<new_lower + v[1], v[2], v[3]>>]

\* The body of the loop over block_ranges after the block was optimized.
Concat ==
    /\ pc = "concat"
    /\ LET new_lower == Len(new_code)
       IN /\ new_code' = new_code \o reordered.block
          /\ ordering_annotation' =
               [k \in {new_lower + o : o \in DOMAIN reordered.ordering} |->
                   reordered.ordering[k - new_lower]] @@ ordering_annotation
          /\ touch_use_annotation' =
               RebaseTouchUse(reordered.touch_use, new_lower) @@ touch_use_annotation
          /\ new_ranges' = Append(new_ranges,
                 <<new_lower, new_lower + Len(reordered.block) - 1>>)
    /\ blk' = blk + 1
    /\ pc' = IF blk = Len(ranges) THEN "publish" ELSE "block"
    /\ skipped' = FALSE
    /\ new_block' = <<>>
    /\ block_len' = 0
    /\ uses' = {}
    /\ basic_graph' = EmptyMap
    /\ graph' = EmptyMap
    /\ prepare_use_map' = EmptyMap
    /\ edges' = {}
    /\ dependencies' = {}
    /\ dfs_numberings' = <<>>
    /\ reordered_indices' = <<>>
    /\ index_remapping' = <<>>
    /\ reordered' = EmptyBlock
    /\ UNCHANGED fnVars

\* compute_reordered_instructions returned Some(..).
Publish ==
    /\ pc = "publish"
    /\ code' = new_code
    /\ annotations' = [OrderingAnnotation |-> ordering_annotation,
                       PrepareUseAnnotation |-> touch_use_annotation]
    /\ pc' = "done"
    /\ UNCHANGED <<run, native, ranges, in_code, in_annotations, outVars, blk,
                   skipped, synthVars, orderVars>>

\* The processor is applied to its own output: the control-flow graph and
\* the live-variable analysis are redone on the new code.  Blocks stay
\* within the length that slice::sort_by sorts by insertion.
Rerun ==
    /\ pc = "done"
    /\ run < MaxRuns
    /\ "OrderingAnnotation" \in DOMAIN annotations
    /\ Len(code) + MaxGrowth(code) <= MAX_INSERTION
    /\ run' = run + 1
    /\ ranges' = BlockRanges(code)
    /\ annotations' = LiveVarAnnotations @@ annotations
    /\ in_code' = code
    /\ in_annotations' = annotations'
    /\ blk' = 1
    /\ new_code' = <<>>
    /\ ordering_annotation' = EmptyMap
    /\ touch_use_annotation' = EmptyMap
    /\ new_ranges' = <<>>
    /\ pc' = "process"
    /\ UNCHANGED <<native, code, skipped, synthVars, orderVars>>

Next ==
    \/ ProcessNative
    \/ ProcessSpecOnly
    \/ ComputeBegin
    \/ OptimizeSkip
    \/ OptimizeBlock
    \/ ReorderBlock
    \/ Concat
    \/ Publish
    \/ Rerun

Spec == Init /\ [][Next]_vars

----------------------------------------------------------------------------
(* Properties *)

\* A block that went through the whole of optimize_block_for_stack_machine;
\* its ReorderedBlock is about to be concatenated.
Processed == pc = "concat" /\ ~skipped

\* The block as it was in the function's code.
OriginalBlock ==
    [i \in 1..(ranges[blk][2] - ranges[blk][1] + 1) |-> code[ranges[blk][1] + i]]

NewOffset(old) == index_remapping[old + 1]

Count(seq, e) == Cardinality({i \in DOMAIN seq : seq[i] = e})

PrepareCount(seq) == Cardinality({i \in DOMAIN seq : is_prepare(seq[i])})

\* C1: dependence respect.  In every processed block, every edge a -> b of
\* the dependence graph before closure is respected by the new order:
\* index_remapping[a] < index_remapping[b].
C1_DependenceRespect ==
    Processed => \A e \in edges : NewOffset(e[1]) < NewOffset(e[2])

\* C2: Prepare placement.  In the reordered block every synthesized Prepare
\* is at a strictly smaller new offset than the use recorded for it.
C2_PreparePlacement ==
    Processed =>
        \A p \in DOMAIN reordered.touch_use : p < reordered.touch_use[p][1]

\* C3: permutation.  The reordered block holds every instruction of the
\* post-synthesis block exactly once; the non-Prepare instructions of the
\* original block and of the output are the same multiset, and the output
\* is longer than the original by the number of synthesized Prepares.
C3_Permutation ==
    Processed =>
        /\ \A e \in Range(new_block) \cup Range(reordered.block) :
               Count(reordered.block, e) = Count(new_block, e)
        /\ \A e \in Range(OriginalBlock) \cup Range(reordered.block) :
               ~is_prepare(e) =>
                   Count(reordered.block, e) = Count(OriginalBlock, e)
        /\ Len(reordered.block) =
               Len(OriginalBlock) + Cardinality(DOMAIN prepare_use_map)

C3_Witness ==
    /\ Processed
    /\ Cardinality(DOMAIN prepare_use_map) >= 2
    /\ \E i \in DOMAIN reordered_indices : reordered_indices[i] # i - 1

Opaque(block) ==
    \E i \in DOMAIN block :
        \/ block[i].kind \in {"Prop", "SpecBlock"}
        \/ block[i].kind = "Call" /\ block[i].opaque

C5_PassThroughOnSkip ==
    pc = "concat" =>
        /\ (Len(OriginalBlock) > 128 \/ Opaque(OriginalBlock)) =>
               /\ reordered.block = OriginalBlock
               /\ DOMAIN reordered.ordering = {}
               /\ DOMAIN reordered.touch_use = {}
        /\ (Len(OriginalBlock) = 128 /\ ~Opaque(OriginalBlock)) =>
               /\ ~skipped
               /\ DOMAIN reordered.ordering = 0..127

C5_Witness ==
    /\ pc = "concat"
    /\ skipped
    /\ Len(OriginalBlock) = 129
    /\ reordered.block[129].op = "Xor"

\* C6: function-level skip.  For a native function, or one whose bytecode
\* holds a specification-only instruction, process returns the data as it
\* got it: same code, same annotations.  Otherwise the previous annotations
\* are gone, the code is the concatenation of the reordered blocks, and
\* exactly OrderingAnnotation and PrepareUseAnnotation are set.
C6_FunctionSkip ==
    pc = "done" =>
        IF native \/ \E i \in DOMAIN in_code : in_code[i].kind = "Prop"
        THEN /\ code = in_code
             /\ annotations = in_annotations
             /\ run = 1 => DOMAIN annotations = {"LiveVarAnnotation"}
        ELSE /\ DOMAIN annotations = {"OrderingAnnotation", "PrepareUseAnnotation"}
             /\ annotations.OrderingAnnotation = ordering_annotation
             /\ annotations.PrepareUseAnnotation = touch_use_annotation
             /\ code = new_code
             /\ Len(code) >= Len(in_code)

C6_Witness ==
    /\ pc = "done"
    /\ ~native
    /\ Len(in_code) >= 2
    /\ in_code[2].kind = "Prop"
    /\ in_code[1].kind = "Ret"

\* C7: last-slot exclusion.  No entry of the Prepare-Use map names the last
\* source position of its use, so a use with a Prepare has two sources or
\* more.
C7_LastSlotExclusion ==
    Processed =>
        \A p \in DOMAIN prepare_use_map :
            LET use == prepare_use_map[p][1]
                pos == prepare_use_map[p][2]
                srcs == sources(new_block[use + 1])
            IN Len(srcs) >= 2 /\ pos < Len(srcs) - 1

\* A Prepare of the second loop: it has an edge to a definer that is not an
\* Assign.
FromMultiUse(p) ==
    /\ p \in DOMAIN graph
    /\ new_block[graph[p][1] + 1].kind # "Assign"

C7_Witness ==
    /\ Processed
    /\ \E p \in DOMAIN prepare_use_map : FromMultiUse(p)
    /\ \E p \in DOMAIN prepare_use_map : ~prepare_use_map[p][3]

\* C8: Prepare uniqueness.  No two synthesized Prepares are recorded for the
\* same (use offset, source position); the slot of the use-def graph names
\* its one Prepare, and there are as many Prepares in the block as entries.
C8_PrepareUnique ==
    Processed =>
        /\ \A p, q \in DOMAIN prepare_use_map :
               p # q => <<prepare_use_map[p][1], prepare_use_map[p][2]>>
                          # <<prepare_use_map[q][1], prepare_use_map[q][2]>>
        /\ \A p \in DOMAIN prepare_use_map :
               graph[prepare_use_map[p][1]][prepare_use_map[p][2] + 1] = p
        /\ Len(new_block) = block_len + Cardinality(DOMAIN prepare_use_map)

\* A Prepare of the first loop whose flag the second loop has set.
C8_Witness ==
    /\ Processed
    /\ \E p \in DOMAIN prepare_use_map :
           prepare_use_map[p][3] /\ ~FromMultiUse(p)

\* The slots of the original block that read `tmp` as written by `def`.
UsesOf(tmp, def) ==
    {slot \in UNION {{<<o, pos>> : pos \in 0..Len(basic_graph[o]) - 1} :
                        o \in DOMAIN basic_graph} :
        /\ sources(new_block[slot[1] + 1])[slot[2] + 1] = tmp
        /\ basic_graph[slot[1]][slot[2] + 1] = def}

NonLast(slot) == slot[2] < Len(sources(new_block[slot[1] + 1])) - 1

PreparedDef(p) ==
    basic_graph[prepare_use_map[p][1]][prepare_use_map[p][2] + 1]

PreparedTmp(p) == sources(new_block[p + 1])[1]

\* C9 as claimed: a Prepare has MultiUse = true iff its temporary, with the
\* same definition, has more than one use in a non-last source position.
C9_MultiUseNonLast ==
    Processed =>
        \A p \in DOMAIN prepare_use_map :
            prepare_use_map[p][3] <=>
                Cardinality({slot \in UsesOf(PreparedTmp(p), PreparedDef(p)) :
                                NonLast(slot)}) > 1

\* C9 amended: a Prepare has MultiUse = true iff its temporary, with the
\* same definition, has more than one use in the block, whatever the source
\* positions of the uses.
C9_MultiUseAnyPosition ==
    Processed =>
        \A p \in DOMAIN prepare_use_map :
            prepare_use_map[p][3] <=>
                Cardinality(UsesOf(PreparedTmp(p), PreparedDef(p))) > 1

C9_Witness ==
    /\ Processed
    /\ \E p \in DOMAIN prepare_use_map :
           /\ prepare_use_map[p][3]
           /\ Cardinality({slot \in UsesOf(PreparedTmp(p), PreparedDef(p)) :
                              NonLast(slot)}) = 1

\* C10 as claimed: a second run over the output of the first synthesizes no
\* new Prepare; the bytecode keeps its length and its instructions.
Published == pc = "done" /\ "OrderingAnnotation" \in DOMAIN annotations

C10_Idempotent ==
    (Published /\ run >= 2) =>
        /\ Len(code) = Len(in_code)
        /\ \A e \in Range(code) \cup Range(in_code) :
               Count(code, e) = Count(in_code, e)

\* The last instruction before position `o` of `block` that writes `tmp`.
LastWrite(block, o, tmp) ==
    LET ws == {i \in 1..(o - 1) : tmp \in Range(dests(block[i]))}
    IN IF ws = {} THEN None ELSE CHOOSE i \in ws : \A j \in ws : j <= i

SlotsOf(block) ==
    UNION {{<<o, p>> : p \in 1..Len(sources(block[o]))} : o \in DOMAIN block}

\* The non-last source slots of `block` read from outside the block, from an
\* Assign, or from a definition that has another use in the block.
NeedsPrepare(block) ==
    {s \in SlotsOf(block) :
        LET tmp == sources(block[s[1]])[s[2]]
            w == LastWrite(block, s[1], tmp)
        IN /\ s[2] < Len(sources(block[s[1]]))
           /\ \/ w = None
              \/ block[w].kind = "Assign"
              \/ \E u \in SlotsOf(block) \ {s} :
                    /\ sources(block[u[1]])[u[2]] = tmp
                    /\ LastWrite(block, u[1], tmp) = w}

InBlock(k) ==
    [i \in 1..(ranges[k][2] - ranges[k][1] + 1) |-> in_code[ranges[k][1] + i]]

NewPrepares(k) ==
    IF Len(InBlock(k)) > 128 \/ Opaque(InBlock(k)) THEN 0
    ELSE Cardinality(NeedsPrepare(InBlock(k)))

\* C10 amended: a second run over the output of the first keeps every
\* instruction of that output, the Prepares of the first run included, and
\* adds Prepares only; it adds one for every non-last source of a processed
\* block that no earlier instruction of the block writes, that an Assign
\* writes, or whose definition has another use in the block, the Prepares
\* of the first run counting as uses and preparing nothing.
C10_SecondRunPreparesAgain ==
    (Published /\ run >= 2) =>
        /\ \A e \in Range(in_code) \cup Range(code) :
               IF is_prepare(e) THEN Count(code, e) >= Count(in_code, e)
               ELSE Count(code, e) = Count(in_code, e)
        /\ Len(code) = Len(in_code)
               + ForRange(LAMBDA k, n : n + NewPrepares(k), 1, Len(ranges) + 1, 0)

C10_Witness ==
    /\ Published
    /\ run = 2
    /\ PrepareCount(in_code) > 0
    /\ Len(code) > Len(in_code)

\* Offsets of the instructions the block had before `Prepare`s were appended.
Originals == 0..block_len - 1

\* C11: a borrow pins a read.  Two original instructions that share a
\* source, one of them a reference-argument producer (FreezeRef, or a
\* BorrowLoc into a mutable reference), keep their relative order.
C11_BorrowPinsRead ==
    Processed =>
        \A a, b \in Originals :
            (/\ a < b
             /\ is_ref_arg_instr(new_block[a + 1]) \/ is_ref_arg_instr(new_block[b + 1])
             /\ Range(sources(new_block[a + 1])) \cap Range(sources(new_block[b + 1])) # {})
                => NewOffset(a) < NewOffset(b)

\* C12: the relatively non-reorderable instructions of a processed block
\* keep their original relative order.
C12_ChainOrder ==
    Processed =>
        \A a, b \in Originals :
            (/\ a < b
             /\ is_relatively_non_reorderable(new_block[a + 1])
             /\ is_relatively_non_reorderable(new_block[b + 1]))
                => NewOffset(a) < NewOffset(b)

\* C13: control flow is not altered.  When the last instruction of the
\* original block is a Ret, Branch, Jump or Abort, it is the last
\* instruction of the reordered block.
C13_ControlFlowLast ==
    Processed =>
        (new_block[block_len].kind \in {"Ret", "Branch", "Jump", "Abort"}
            => reordered.block[Len(reordered.block)] = new_block[block_len])

\* C14: offset remapping is a bijection on [0, N), N the length of the block
\* with its Prepares: every old offset gets a distinct new offset in
\* [0, N), and the instruction at the new offset is the one that was at the
\* old offset.
C14_RemapBijection ==
    Processed =>
        LET N == Len(new_block)
        IN /\ Len(index_remapping) = N
           /\ \A o \in 0..N - 1 : NewOffset(o) \in 0..N - 1
           /\ \A o, q \in 0..N - 1 : o # q => NewOffset(o) # NewOffset(q)
           /\ Len(reordered.block) = N
           /\ \A o \in 0..N - 1 :
                  reordered.block[NewOffset(o) + 1] = new_block[o + 1]

\* The new order is neither the old one nor its own inverse.
C14_Witness ==
    /\ Processed
    /\ Len(new_block) >= 3
    /\ \E o \in 0..Len(new_block) - 1 : reordered_indices[o + 1] # NewOffset(o)

\* The block of the new code that holds offset `o`.
NewBlockOf(o) ==
    CHOOSE k \in DOMAIN new_ranges : new_ranges[k][1] <= o /\ o <= new_ranges[k][2]

\* C15: PrepareUseAnnotation of the function.  Its keys are the offsets in
\* the new code of the Prepares this run synthesized; for an entry
\* p -> (u, pos, m) the instruction at p is a Prepare without destination
\* and with one source, u is in the block of p, the source at position pos
\* of the instruction at u is that temporary, and both instructions have
\* the same attribute id.
C15_PrepareUseConsistent ==
    Published =>
        LET pua == annotations.PrepareUseAnnotation
        IN /\ \A p \in DOMAIN pua : p \in 0..Len(code) - 1 /\ is_prepare(code[p + 1])
           /\ Cardinality(DOMAIN pua) = PrepareCount(code) - PrepareCount(in_code)
           /\ \A p \in DOMAIN pua :
                  LET u == pua[p][1]
                      pos == pua[p][2]
                  IN /\ dests(code[p + 1]) = <<>>
                     /\ Len(sources(code[p + 1])) = 1
                     /\ u \in 0..Len(code) - 1
                     /\ NewBlockOf(u) = NewBlockOf(p)
                     /\ pos < Len(sources(code[u + 1]))
                     /\ sources(code[u + 1])[pos + 1] = sources(code[p + 1])[1]
                     /\ get_attr_id(code[p + 1]) = get_attr_id(code[u + 1])

\* A Prepare of a block that comes after a block that grew.
C15_Witness ==
    /\ Published
    /\ Len(new_ranges) >= 2
    /\ new_ranges[2][1] > ranges[2][1]
    /\ \E p \in DOMAIN annotations.PrepareUseAnnotation : p >= new_ranges[2][1]

\* C16: a block of one instruction with k >= 2 pairwise distinct sources,
\* all defined outside the block, becomes k - 1 Prepares, one per non-last
\* source in source order, followed by the instruction; the Prepare-Use
\* map is Prepare_i -> (instruction, i, false).
C16_SingleInstruction ==
    Processed =>
        LET instr == new_block[1]
            srcs == sources(instr)
            k == Len(srcs)
        IN (/\ block_len = 1
            /\ k >= 2
            /\ \A i, j \in 1..k : i # j => srcs[i] # srcs[j])
               => /\ reordered.block =
                       [i \in 1..k |-> IF i < k
                                       THEN Prepare(get_attr_id(instr), srcs[i])
                                       ELSE instr]
                  /\ DOMAIN reordered.touch_use = 0..k - 2
                  /\ \A i \in 0..k - 2 : reordered.touch_use[i] = <<k - 1, i, FALSE>>

C16_Witness ==
    /\ Processed
    /\ block_len = 1
    /\ Len(sources(new_block[1])) = 3
    /\ Len(reordered.block) = 3

\* C17: when the latest definer in the block of a non-last source of a use
\* is an Assign, a Prepare of that temporary is synthesized for the slot
\* and the reordered block has the Assign before the Prepare and the
\* Prepare before the use.
C17_AssignDefiner ==
    Processed =>
        \A u \in DOMAIN basic_graph :
            \A pos \in 0..Len(basic_graph[u]) - 2 :
                LET d == basic_graph[u][pos + 1]
                IN (d # None /\ new_block[d + 1].kind = "Assign")
                      => \E p \in DOMAIN prepare_use_map :
                            /\ prepare_use_map[p][1] = u
                            /\ prepare_use_map[p][2] = pos
                            /\ sources(new_block[p + 1]) = <<sources(new_block[u + 1])[pos + 1]>>
                            /\ NewOffset(d) < NewOffset(p)
                            /\ NewOffset(p) < NewOffset(u)

\* A processed block that needed no Prepare and kept its order.
Untouched ==
    /\ Processed
    /\ DOMAIN prepare_use_map = {}
    /\ \A i \in DOMAIN reordered_indices : reordered_indices[i] = i - 1

\* C18 as claimed: a processed block in which nothing was reordered and no
\* Prepare was needed gets two empty annotations.
C18_UntouchedEmpty ==
    Untouched =>
        /\ DOMAIN reordered.ordering = {}
        /\ DOMAIN reordered.touch_use = {}

\* C18 amended: such a block gets an empty PrepareUseAnnotation and an
\* OrderingAnnotation with one entry at every offset of the block, holding
\* the dependence set and the DFS numbering of the instruction.
C18_UntouchedOrderingFull ==
    Untouched =>
        /\ DOMAIN reordered.touch_use = {}
        /\ DOMAIN reordered.ordering = 0..Len(new_block) - 1
        /\ \A o \in 0..Len(new_block) - 1 :
               /\ reordered.ordering[o].dfs_numberings = dfs_numberings[o + 1]
               /\ reordered.ordering[o].dependencies =
                      {b \in 0..Len(new_block) - 1 : <<o, b>> \in dependencies}

C18_Witness ==
    /\ Untouched
    /\ block_len = 3
    /\ \A o \in Originals : is_relatively_non_reorderable(new_block[o + 1])
    /\ new_block[3].kind = "Jump"
    /\ reordered.ordering[0].dependencies = {1, 2}

\* C19: the comparator handed to sort_by is a strict total order on the
\* offsets of the block: antisymmetric, never Equal for two offsets, and
\* transitive.
C19_ComparatorTotalOrder ==
    Processed =>
        LET N == Len(new_block)
            cmp(a, b) == compare(a, b, dependencies, dfs_numberings)
        IN /\ \A a, b \in 0..N - 1 :
                  /\ (cmp(a, b) = "Less") <=> (cmp(b, a) = "Greater")
                  /\ a # b => cmp(a, b) # "Equal"
           /\ \A a, b, c \in 0..N - 1 :
                  (cmp(a, b) = "Less" /\ cmp(b, c) = "Less") => cmp(a, c) = "Less"

\* C20 as claimed: every edge of the dependence graph, before and after
\* closure, points from a lower to a higher offset of the block.
C20_EdgesForward ==
    Processed => \A e \in edges \cup dependencies : e[1] < e[2]

\* C20 amended: before closure every edge points from a lower to a higher
\* offset except the true-dependence edge from a synthesized Prepare to the
\* use it prepares, which points back from the end of the block; after
\* closure an edge that points back is the edge of such a Prepare or
\* follows a path through one.
C20_EdgesForwardButPrepare ==
    Processed =>
        /\ \A e \in edges :
               e[1] > e[2] => /\ e[1] \in DOMAIN prepare_use_map
                              /\ prepare_use_map[e[1]][1] = e[2]
        /\ \A p \in DOMAIN prepare_use_map :
               /\ <<p, prepare_use_map[p][1]>> \in edges
               /\ p > prepare_use_map[p][1]
               /\ \A e \in edges : e[2] = p => e[1] < p
        /\ \A e \in dependencies :
               e[1] > e[2] =>
                   \E p \in DOMAIN prepare_use_map :
                       /\ e[1] = p \/ <<e[1], p>> \in dependencies
                       /\ e[2] = prepare_use_map[p][1]
                          \/ <<prepare_use_map[p][1], e[2]>> \in dependencies

\* A Prepare with an edge from its definer and an edge back to its use.
C20_Witness ==
    /\ Processed
    /\ \E p \in DOMAIN prepare_use_map :
           /\ p \in DOMAIN graph
           /\ <<graph[p][1], p>> \in edges
           /\ <<p, prepare_use_map[p][1]>> \in edges
           /\ graph[p][1] < prepare_use_map[p][1]

\* The instructions the block had before `Prepare`s were appended.
Body == SubSeq(new_block, 1, block_len)

\* C21: Prepare synthesis characterisation.  After both loops the slot
\* (u, pos) of the use-def graph holds a synthesized Prepare if and only if
\* pos is not the last source position of u and the source has no definer in
\* the block, or its latest definer is an Assign, or the pair (temporary,
\* definer) has more than one use in the block; every other slot holds the
\* original definer, or None.
C21_PrepareCharacterisation ==
    Processed =>
        \A needs \in {NeedsPrepare(Body)} : \A s \in SlotsOf(Body) :
            LET slot == graph[s[1] - 1][s[2]]
                w == LastWrite(Body, s[1], sources(Body[s[1]])[s[2]])
            IN IF s \in needs
               THEN /\ slot >= block_len
                    /\ is_prepare(new_block[slot + 1])
                    /\ sources(new_block[slot + 1]) = <<sources(Body[s[1]])[s[2]]>>
                    /\ prepare_use_map[slot][1] = s[1] - 1
                    /\ prepare_use_map[slot][2] = s[2] - 1
               ELSE slot = (IF w = None THEN None ELSE w - 1)

\* A block with a prepared slot, a non-last slot left to its definer, and a
\* last-position slot read from outside.
C21_Witness ==
    /\ Processed
    /\ \E s \in NeedsPrepare(Body) : graph[s[1] - 1][s[2]] >= block_len
    /\ \E s \in SlotsOf(Body) \ NeedsPrepare(Body) :
           /\ s[2] < Len(sources(Body[s[1]]))
           /\ graph[s[1] - 1][s[2]] \in Originals
    /\ \E s \in SlotsOf(Body) \ NeedsPrepare(Body) : graph[s[1] - 1][s[2]] = None

\* C22: use-def resolution.  Before synthesis, slot i of the entry of the
\* instruction at offset o is the largest offset below o whose instruction
\* writes source i, or None; an instruction that reads and writes the same
\* temporary never names itself.  After synthesis every slot is None, an
\* offset below the use, or an offset of an appended Prepare.
C22_UseDefResolution ==
    Processed =>
        /\ DOMAIN basic_graph = {o \in Originals : sources(Body[o + 1]) # <<>>}
        /\ \A s \in SlotsOf(Body) :
               LET w == LastWrite(Body, s[1], sources(Body[s[1]])[s[2]])
               IN /\ basic_graph[s[1] - 1][s[2]] = (IF w = None THEN None ELSE w - 1)
                  /\ basic_graph[s[1] - 1][s[2]] # s[1] - 1
        /\ \A u \in DOMAIN graph : \A i \in DOMAIN graph[u] :
               \/ graph[u][i] = None
               \/ graph[u][i] \in 0..u - 1
               \/ graph[u][i] \in block_len..Len(new_block) - 1

\* An instruction that reads and writes the same temporary, once with an
\* earlier writer of it in the block and once without.
C22_Witness ==
    /\ Processed
    /\ \E s \in SlotsOf(Body) :
           /\ sources(Body[s[1]])[s[2]] \in Range(dests(Body[s[1]]))
           /\ basic_graph[s[1] - 1][s[2]] \in 0..s[1] - 2
    /\ \E s \in SlotsOf(Body) :
           /\ sources(Body[s[1]])[s[2]] \in Range(dests(Body[s[1]]))
           /\ basic_graph[s[1] - 1][s[2]] = None

\* C23: true-dependence coverage.  For every original use u and every
\* source of it whose latest writer in the block is d, the closed dependence
\* graph contains d -> u, also when a Prepare took the slot; and it contains
\* p -> u for every synthesized Prepare p of a use u.
C23_TrueDependenceCoverage ==
    Processed =>
        /\ \A s \in SlotsOf(Body) :
               LET w == LastWrite(Body, s[1], sources(Body[s[1]])[s[2]])
               IN w # None => <<w - 1, s[1] - 1>> \in dependencies
        /\ \A p \in DOMAIN prepare_use_map :
               <<p, prepare_use_map[p][1]>> \in dependencies

\* A definer tied to its use only through the Prepare that took the slot.
C23_Witness ==
    /\ Processed
    /\ \E p \in DOMAIN prepare_use_map :
           /\ p \in DOMAIN graph
           /\ <<graph[p][1], prepare_use_map[p][1]>> \notin edges
           /\ <<graph[p][1], prepare_use_map[p][1]>> \in dependencies
           /\ graph[prepare_use_map[p][1]][prepare_use_map[p][2] + 1] = p

\* Pairs a < b of instructions of the block that are no Prepare, where b
\* writes a temporary that a reads or writes.
FalsePairs ==
    {e \in Originals \X Originals :
        /\ e[1] < e[2]
        /\ ~is_prepare(Body[e[1] + 1])
        /\ ~is_prepare(Body[e[2] + 1])
        /\ Range(dests(Body[e[2] + 1]))
               \cap (Range(sources(Body[e[1] + 1])) \cup Range(dests(Body[e[1] + 1])))
           # {}}

Extend(paths, es) ==
    paths \cup {<<q[1][1], q[2][2]>> : q \in {q \in paths \X es : q[1][2] = q[2][1]}}

\* Pairs joined by a path of one edge or more of `es`.
RECURSIVE Reach(_, _)
Reach(paths, es) ==
    \* the binding evaluates the extension once
    CHOOSE reach \in {IF next = paths THEN paths ELSE Reach(next, es) :
                         next \in {Extend(paths, es)}} : TRUE

\* C25: transitive closure.  After make_transitively_closed the edge
\* relation over the offsets of the block after synthesis is the
\* reachability relation (paths of one edge or more) of the graph before
\* closure: it is transitive and holds no pair without such a path.
C25_TransitiveClosure ==
    Processed =>
        /\ dependencies = Reach(edges, edges)
        /\ \A a, b \in dependencies : a[2] = b[1] => <<a[1], b[2]>> \in dependencies
        /\ dependencies \subseteq (0..Len(new_block) - 1) \X (0..Len(new_block) - 1)

\* A pair of the closure that only a path of three edges or more joins.
C25_Witness ==
    /\ Processed
    /\ dependencies \ Extend(edges, edges) # {}

\* The instructions with a Some number in column `col` of the numbering.
Numbered(col) ==
    {o \in 0..Len(new_block) - 1 :
        col <= Len(dfs_numberings[o + 1]) /\ dfs_numberings[o + 1][col] # None}

Columns == UNION {DOMAIN dfs_numberings[o + 1] : o \in 0..Len(new_block) - 1}

\* C26: DFS column distinctness.  In every column no two instructions hold
\* the same Some number, and the Some numbers of a column are exactly
\* 0..m-1 for its m numbered instructions; so the first column in which two
\* distinct instructions are both numbered never compares equal.
C26_ColumnDistinct ==
    Processed =>
        \A col \in Columns : \A numbered \in {Numbered(col)} :
            /\ \A a, b \in numbered :
                   a # b => dfs_numberings[a + 1][col] # dfs_numberings[b + 1][col]
            /\ {dfs_numberings[o + 1][col] : o \in numbered}
                   = 0..Cardinality(numbered) - 1

\* Two columns, the second of which numbers an instruction that the first
\* numbers too.
C26_Witness ==
    /\ Processed
    /\ Cardinality(Columns) >= 2
    /\ Cardinality(Numbered(1)) >= 2
    /\ Numbered(1) \cap Numbered(2) # {}

\* The use-def graph as pairs <<use, definer or Prepare>>.
UseDefPairs ==
    UNION {{<<u, graph[u][i]>> : i \in {j \in DOMAIN graph[u] : graph[u][j] # None}} :
              u \in DOMAIN graph}

\* The instructions a DFS run seeded at `o` visits, `paths` being the pairs
\* joined by a path of the use-def graph.
VisitedFrom(paths, o) == {o} \cup {e[2] : e \in {d \in paths : d[1] = o}}

SeedCandidates ==
    {o \in 0..Len(new_block) - 1 :
        /\ is_relatively_non_reorderable(new_block[o + 1])
        /\ sources(new_block[o + 1]) # <<>>}

\* The candidates that no candidate nearer to the end of the block visits.
Seeds(paths) ==
    {o \in SeedCandidates :
        \A c \in SeedCandidates : c > o => o \notin VisitedFrom(paths, c)}

\* The seed of column `col`: seeds are taken from the end of the block.
SeedOf(seeds, col) == CHOOSE o \in seeds : Cardinality({q \in seeds : q >= o}) = col

\* The states of the loop of dfs_post_order_numbering: element i + 1 is the
\* state after the loop has gone over the last i instructions of the block.
NumberingHistory ==
    ForRange(LAMBDA j, h :
                 Append(h, DfsRun(new_block, graph, Len(new_block) - 1 - j, h[Len(h)])),
             0, Len(new_block),
             <<[true_dependencies |-> [k \in 1..Len(new_block) |-> <<>>],
                visited_by_any_run |-> {}]>>)

\* C27: DFS numbering shape.  After every run and at the end the vectors of
\* all instructions have one length, the number of runs so far; a run is
\* seeded only at a relatively non-reorderable instruction with a source
\* that no earlier run visited, seeds being taken from the end of the
\* block; an instruction has a number in a column exactly when the seed of
\* the column reaches it through the use-def graph, so an instruction that
\* no seed reaches has only None entries.
C27_NumberingShape ==
    Processed =>
        \A pairs \in {UseDefPairs} :
        \A paths \in {Reach(pairs, pairs)} :
        \A seeds \in {Seeds(paths)} :
            /\ \A h \in {NumberingHistory} :
                   /\ \A i \in 0..Len(new_block) : \A o \in 1..Len(new_block) :
                          Len(h[i + 1].true_dependencies[o])
                              = Cardinality({q \in seeds : q >= Len(new_block) - i})
                   /\ h[Len(new_block) + 1].true_dependencies = dfs_numberings
            /\ \A col \in 1..Cardinality(seeds) :
               \A visited \in {VisitedFrom(paths, SeedOf(seeds, col))} :
               \A o \in 0..Len(new_block) - 1 :
                   /\ DOMAIN dfs_numberings[o + 1] = 1..Cardinality(seeds)
                   /\ dfs_numberings[o + 1][col] # None <=> o \in visited
            /\ seeds = {} =>
                   \A o \in 0..Len(new_block) - 1 : dfs_numberings[o + 1] = <<>>

\* Two runs, a candidate that is no seed, and an instruction no run visits.
C27_Witness ==
    /\ Processed
    /\ Cardinality(Seeds(Reach(UseDefPairs, UseDefPairs))) = 2
    /\ SeedCandidates # Seeds(Reach(UseDefPairs, UseDefPairs))
    /\ \E o \in 0..Len(new_block) - 1 :
           \A col \in 1..2 : dfs_numberings[o + 1][col] = None

\* C28: DFS post-order.  Within one column, when an instruction u and an
\* instruction d named in a slot of u are both numbered, d's number is
\* smaller than u's; the seed of the run holds the largest number of its
\* column.
C28_PostOrder ==
    Processed =>
        \A pairs \in {UseDefPairs} :
        \A seeds \in {Seeds(Reach(pairs, pairs))} :
        \A col \in Columns : \A numbered \in {Numbered(col)} :
            /\ \A e \in pairs :
                   (e[1] \in numbered /\ e[2] \in numbered) =>
                       dfs_numberings[e[2] + 1][col] < dfs_numberings[e[1] + 1][col]
            /\ \A seed \in {SeedOf(seeds, col)} :
                   /\ seed \in numbered
                   /\ \A o \in numbered :
                          dfs_numberings[o + 1][col] <= dfs_numberings[seed + 1][col]

\* A run that goes through a Prepare to its definer: three numbers in line.
C28_Witness ==
    /\ Processed
    /\ \E col \in Columns : \E e1, e2 \in UseDefPairs :
           /\ e1[2] = e2[1]
           /\ e1[1] = SeedOf(Seeds(Reach(UseDefPairs, UseDefPairs)), col)
           /\ e2[1] >= block_len
           /\ {e1[1], e1[2], e2[2]} \subseteq Numbered(col)

\* The offset before reordering of the instruction now at new offset `n`.
OldOffset(n) == reordered_indices[n + 1]

\* C29: OrderingAnnotation content.  The entry at new offset n holds the
\* dependence set of the instruction now at n with index_remapping applied
\* to its members, so every member of the set stored at key n is greater
\* than n.
C29_AnnotationRemapped ==
    Processed =>
        \A n \in DOMAIN reordered.ordering :
            /\ reordered.ordering[n].dependencies
                   = {NewOffset(e[2]) : e \in {d \in dependencies : d[1] = OldOffset(n)}}
            /\ \A m \in reordered.ordering[n].dependencies : m > n

\* Pairs a < b of instructions that the closure does not relate, that no
\* column numbers both, and whose numbering vectors are equal.
TiedPairs ==
    {e \in (0..Len(new_block) - 1) \X (0..Len(new_block) - 1) :
        /\ e[1] < e[2]
        /\ e \notin dependencies
        /\ <<e[2], e[1]>> \notin dependencies
        /\ \A col \in Columns : ~(e[1] \in Numbered(col) /\ e[2] \in Numbered(col))
        /\ dfs_numberings[e[1] + 1] = dfs_numberings[e[2] + 1]}

====
